---- MODULE Spec2Model ----
(***************************************************************************)
(* Model of the GitHub PR analysis tool (src/cli.py): the snapshot store   *)
(* (HistoryManager), the diff engine (InlinePRAnalyzer.calculate_diffs),   *)
(* the summarizer (process_pr), the status selection and the run pipeline  *)
(* (analyze / display_results) with its concurrent detail fetches.         *)
(***************************************************************************)
EXTENDS Integers, Sequences, FiniteSets, TLC

VARIABLES
    dcur,       \* calculate_diffs under test: its current_data argument
    dprev,      \* calculate_diffs under test: the caller's previous_data list
    dres,       \* calculate_diffs under test: the list it returned
    dpc,        \* "input" before the call, "output" after it
    file,       \* the snapshot file .pr_history.json
    now,        \* the clock, in hours
    sarg,       \* snapshot store under test: arguments of the last save_results
    sbefore,    \* snapshot store under test: what load returned before that save
    spc,        \* snapshot store under test: "ready" or "saved"
    repo,       \* the remote repository: per PR number, open flag and comments
    events,     \* changes of the repository and of the date so far
    pc,         \* position of the run in analyze()
    user,       \* analyze: user ("" is None)
    statuses,   \* statuses of get_status_selection, then of analyze
    smode,      \* get_status_selection: "arg" (--status with ALL) or "prompt"
    aprs,       \* get_available_statuses: prs
    ai,         \* get_available_statuses: position of the for loop in prs
    avail,      \* get_available_statuses: statuses
    prs,        \* analyze: prs
    fetch,      \* analyze: state of the get_pr_details task of each PR of prs
    pr_data,    \* analyze: pr_data, sorted
    console,    \* what the run has printed, with the answer to its status prompt
    result,     \* how the run ended
    failed,     \* the HTTP request that failed ("" when none)
    startFile,  \* the snapshot file as it was when the run started
    prevRun,    \* user and pr_data of the preceding run, if it rendered
    tz,         \* offset of the local time zone of the machine from UTC, in hours
    gtasks,     \* asyncio.gather under test: state of each awaitable
    gorder,     \* asyncio.gather under test: the awaitables in order of completion
    gout,       \* asyncio.gather under test: what the caller got back
    gpc,        \* asyncio.gather under test: "wait", "returned" or "raised"
    procs       \* overlapping runs: position and local history of each save_results

diffVars == <<dcur, dprev, dres, dpc>>
storeVars == <<sarg, sbefore, spc>>
selVars == <<user, statuses, smode, aprs, ai, avail>>
runVars == <<pc, selVars, prs, fetch, pr_data, console, result, failed, startFile,
             prevRun>>
auxVars == <<tz, gtasks, gorder, gout, gpc, procs>>
vars == <<diffVars, file, now, storeVars, repo, events, runVars, auxVars>>

(***************************************************************************)
(* Bounds of the model.                                                    *)
(***************************************************************************)
NumPRs == 3        \* PR numbers 1..NumPRs exist in the repository
MaxLen == 2        \* longest list handed to the diff engine on its own
MaxCount == 1      \* comments / commits of a PR range over 0..MaxCount
MaxNow == 1        \* days the clock may advance
MaxEvents == 1     \* changes of the repository and of the date per behaviour
MaxFetch == 7      \* longest PR list handed to the detail fetch on its own

PRNums == 1..NumPRs
Users == {"alice", "bob"}

(***************************************************************************)
(* Python values held in a MetricsRecord / table row.  An int is kept as   *)
(* an int, a str as a str; the f-string of calculate_diffs is kept by its  *)
(* parts: literal value, colour tag and signed delta.                      *)
(***************************************************************************)
Num(n) == [t |-> "int", v |-> n, d |-> 0, s |-> <<>>]
Str(s) == [t |-> "str", v |-> 0, d |-> 0, s |-> s]
IsNum(x) == x.t = "int"

\* f"{curr_value} ([{'green' if diff > 0 else 'red'}]{diff:+d}[/])"
Fmt(curr_value, diff) ==
    [t |-> "str", v |-> curr_value, d |-> diff,
     s |-> <<IF diff > 0 THEN "green" ELSE "red">>]

CLOSED == Str(<<"[red]CLOSED[/]">>)

NumericFields == {"Days Open", "Files Changed", "Commits", "Comments"}
SkipFields == {"PR #", "Title", "File Types"}
RecordFields == NumericFields \cup SkipFields

(***************************************************************************)
(* calculate_diffs (src/cli.py 99-127)                                     *)
(***************************************************************************)
\* next((p for p in previous_data if p['PR #'] == pr_number), None)
HasPrev(previous_data, pr_number) ==
    \E i \in 1..Len(previous_data) : previous_data[i]["PR #"] = pr_number
FindPrev(previous_data, pr_number) ==
    LET idx == {i \in 1..Len(previous_data) : previous_data[i]["PR #"] = pr_number}
    IN  previous_data[CHOOSE i \in idx : \A j \in idx : i <= j]

\* one iteration of "for key, curr_value in curr.items()" (lines 108-118)
DiffValueZeroAs(key, curr_value, prev) ==
    IF key \in SkipFields THEN curr_value
    ELSE IF IsNum(curr_value) /\ IsNum(prev[key])
         THEN Fmt(curr_value.v, curr_value.v - prev[key].v)
         ELSE curr_value
DiffValueSwapAs(key, curr_value, prev) ==
    IF key \in SkipFields THEN curr_value
    ELSE IF IsNum(curr_value) /\ IsNum(prev[key])
         THEN LET diff == prev[key].v - curr_value.v
              IN  IF diff # 0 THEN Fmt(curr_value.v, diff) ELSE curr_value
         ELSE curr_value
DiffValue(key, curr_value, prev) ==
    IF key \in SkipFields THEN curr_value
    ELSE IF IsNum(curr_value) /\ IsNum(prev[key])
         THEN LET diff == curr_value.v - prev[key].v
              IN  IF diff # 0 THEN Fmt(curr_value.v, diff) ELSE curr_value
         ELSE curr_value

\* lines 103-119: the row appended for one current record
DiffRow(curr, previous_data) ==
    IF HasPrev(previous_data, curr["PR #"])
    THEN LET prev == FindPrev(previous_data, curr["PR #"])
         IN  [key \in DOMAIN curr |-> DiffValue(key, curr[key], prev)]
    ELSE curr

\* line 122
IsClosedAlwaysAs(p, current_data) == TRUE
IsClosed(p, current_data) ==
    ~ \E i \in 1..Len(current_data) : current_data[i]["PR #"] = p["PR #"]
ClosedPRsAllAs(previous_data, current_data) == previous_data
ClosedPRs(previous_data, current_data) ==
    SelectSeq(previous_data, LAMBDA p : IsClosed(p, current_data))

\* line 124: closed_pr['Status'] = '[red]CLOSED[/]'
MarkClosed(closed_pr) ==
    [key \in DOMAIN closed_pr \cup {"Status"} |->
        IF key = "Status" THEN CLOSED ELSE closed_pr[key]]

\* lines 122-125: the elements of closed_prs are the dicts of previous_data
\* themselves, so the assignment of line 124 is made in the caller's list
previous_data_after(current_data, previous_data) ==
    [j \in 1..Len(previous_data) |->
        IF IsClosed(previous_data[j], current_data)
        THEN MarkClosed(previous_data[j])
        ELSE previous_data[j]]

calculate_diffs(current_data, previous_data) ==
    LET closed_prs == ClosedPRs(previous_data, current_data)
    IN  [i \in 1..Len(current_data) |-> DiffRow(current_data[i], previous_data)]
        \o [i \in 1..Len(closed_prs) |-> MarkClosed(closed_prs[i])]

(***************************************************************************)
(* The remote repository as the REST API returns it, and process_pr        *)
(* (src/cli.py 129-148).  A file name is kept as its dot-separated parts;  *)
(* a list whose elements are opaque to the program is kept as a list.      *)
(***************************************************************************)
HoursPerDay == 24

Opaque(n) == [i \in 1..n |-> "item"]

TitleOf(number) == <<"PR", ToString(number)>>

\* files of PR n as GET .../pulls/n/files returns them
FilesOf(number) ==
    IF number % 2 = 1
    THEN <<[filename |-> <<"a", "py">>], [filename |-> <<"README">>]>>
    ELSE <<[filename |-> <<"b", "tar", "go">>]>>

\* the extensions of the model in lexicographic order, as sorted() orders them
ExtOrder == <<"go", "no_ext", "py", "tar">>

\* f['filename'].split('.')[-1] if '.' in f['filename'] else 'no_ext'
Extension(filename) ==
    IF Len(filename) > 1 THEN filename[Len(filename)] ELSE "no_ext"

\* ', '.join(sorted(file_types))
FileTypes(files) ==
    LET file_types == {Extension(files[i].filename) : i \in 1..Len(files)}
    IN  SelectSeq(ExtOrder, LAMBDA e : e \in file_types)

\* timedelta.days: whole days, rounded towards minus infinity
DaysOf(hours) == hours \div HoursPerDay

process_pr(pr, details, local_now) ==
    [key \in RecordFields |->
        CASE key = "PR #" -> Num(pr.number)
          [] key = "Title" -> Str(pr.title)
          [] key = "Days Open" -> Num(DaysOf(local_now - pr.created_at))
          [] key = "Files Changed" -> Num(Len(details.files))
          [] key = "Commits" -> Num(Len(details.commits))
          [] key = "File Types" -> Str(FileTypes(details.files))
          [] key = "Comments" -> Num(Len(details.comments))]

(***************************************************************************)
(* HistoryManager (src/cli.py 24-45).  The file is absent, holds text that *)
(* is not JSON, or holds a JSON document.  json.dump writes a Python int   *)
(* as a JSON number and a str as a JSON string; json.load reads them back. *)
(***************************************************************************)
EmptyDict == [u \in {} |-> <<>>]

AbsentFile == [kind |-> "absent", text |-> EmptyDict]
MalformedFile == [kind |-> "malformed", text |-> EmptyDict]

JsonValue(x) ==
    IF x.t = "int"
    THEN [j |-> "number", n |-> x.v, chars |-> <<>>]
    ELSE [j |-> "string", n |-> 0, chars |-> <<x.v, x.d, x.s>>]

PyValue(x) ==
    IF x.j = "number"
    THEN [t |-> "int", v |-> x.n, d |-> 0, s |-> <<>>]
    ELSE [t |-> "str", v |-> x.chars[1], d |-> x.chars[2], s |-> x.chars[3]]

JsonRows(data) ==
    [i \in 1..Len(data) |-> [key \in DOMAIN data[i] |-> JsonValue(data[i][key])]]

PyRows(rows) ==
    [i \in 1..Len(rows) |-> [key \in DOMAIN rows[i] |-> PyValue(rows[i][key])]]

\* json.dump(history, f, indent=2)
JsonDump(history) ==
    [u \in DOMAIN history |->
        [timestamp |-> history[u].timestamp, data |-> JsonRows(history[u].data)]]

\* json.load(f)
JsonLoad(text) ==
    [u \in DOMAIN text |->
        [timestamp |-> text[u].timestamp, data |-> PyRows(text[u].data)]]

\* datetime.now().isoformat()
IsoFormat(t) == <<"iso", ToString(t)>>

\* lines 28-36
load_previous_resultsStaleAs(f) ==
    IF f.kind = "json" THEN JsonLoad(f.text)
    ELSE [u \in Users |-> [timestamp |-> IsoFormat(0), data |-> <<>>]]
load_previous_results(f) ==
    IF f.kind = "json" THEN JsonLoad(f.text) ELSE EmptyDict

\* history[user] = {...}
SetEntry(history, login, entry) ==
    [u \in DOMAIN history \cup {login} |-> IF u = login THEN entry ELSE history[u]]

\* lines 38-45: the file after save_results(user, pr_data) at time t
save_resultsFreshAs(f, login, data, t) ==
    [kind |-> "json",
     text |-> JsonDump(SetEntry(EmptyDict, login,
                                [timestamp |-> IsoFormat(t), data |-> data]))]
save_results(f, login, data, t) ==
    LET history == load_previous_results(f)
    IN  [kind |-> "json",
         text |-> JsonDump(SetEntry(history, login,
                                    [timestamp |-> IsoFormat(t), data |-> data]))]

(***************************************************************************)
(* The REST API (src/cli.py 68-90) over the remote repository.  Author,    *)
(* draft flag, reviews, commits and creation time of a PR do not change;   *)
(* a PR can be closed and reopened and its comments can change.            *)
(***************************************************************************)
AuthorOf(number) == IF number % 3 = 0 THEN "bob" ELSE "alice"
DraftOf(number) == number % 2 = 0
ReviewsOf(number) ==
    CASE number % 3 = 1 -> <<[user |-> [login |-> "bob"], state |-> "approved"]>>
      [] number % 3 = 2 -> <<>>
      [] OTHER -> <<[user |-> [login |-> "alice"], state |-> "changes_requested"],
                    [user |-> [login |-> "alice"], state |-> "COMMENTED"]>>
CommitsOf(number) == Opaque(number)

Endpoints == <<"reviews", "comments", "commits", "files">>

\* one element of the response of GET /repos/{owner}/{repo}/pulls
PullOf(number) ==
    [number |-> number, title |-> TitleOf(number), user |-> [login |-> AuthorOf(number)],
     created_at |-> 0, draft |-> DraftOf(number)]

\* the response of GET /repos/{owner}/{repo}/pulls: the open PRs
ListPulls(r) ==
    SelectSeq([n \in 1..NumPRs |-> PullOf(n)], LAMBDA pr : r[pr.number].open)

\* lines 85-90: dict(zip(endpoints, results)) of the four responses
get_pr_details(r, pr_number) ==
    [reviews |-> ReviewsOf(pr_number), comments |-> Opaque(r[pr_number].comments),
     commits |-> CommitsOf(pr_number), files |-> FilesOf(pr_number)]

\* lines 78-83, applied to the response data
get_user_pull_requests(data, login) ==
    IF login # "" THEN SelectSeq(data, LAMBDA pr : pr.user.login = login) ELSE data

\* lines 73-76
get_all_users(data) == {data[i].user.login : i \in 1..Len(data)}

(***************************************************************************)
(* Status classification and selection (src/cli.py 221-273).               *)
(***************************************************************************)
Upper(st) ==
    CASE st \in {"approved", "Approved"} -> "APPROVED"
      [] st = "commented" -> "COMMENTED"
      [] st = "changes_requested" -> "CHANGES_REQUESTED"
      [] st = "dismissed" -> "DISMISSED"
      [] OTHER -> st
Lower(st) ==
    CASE st \in {"APPROVED", "Approved"} -> "approved"
      [] st = "COMMENTED" -> "commented"
      [] st = "CHANGES_REQUESTED" -> "changes_requested"
      [] st = "DISMISSED" -> "dismissed"
      [] OTHER -> st

\* the status labels of the model in the order sorted() gives them
StatusOrder ==
    <<"ALL", "CHANGES_REQUESTED", "DISMISSED", "DRAFT", "PENDING REVIEW", "READY">>

\* line 233
Approvers(reviews) == SelectSeq(reviews, LAMBDA review : Lower(review.state) = "approved")

\* lines 226-237: the status of one PR
ClassifyExactCaseAs(pr, reviews) ==
    IF pr.draft THEN "DRAFT"
    ELSE IF \E i \in 1..Len(reviews) : reviews[i].state = "approved"
         THEN "READY" ELSE "PENDING REVIEW"
Classify(pr, reviews) ==
    IF pr.draft THEN "DRAFT"
    ELSE IF Approvers(reviews) # <<>> THEN "READY" ELSE "PENDING REVIEW"

\* lines 239-241
ExtraStates(reviews) ==
    {Upper(reviews[i].state) : i \in 1..Len(reviews)} \ {"APPROVED", "COMMENTED"}

\* one iteration of the loop of get_available_statuses
StatusesOfPR(pr, reviews) ==
    IF pr.draft THEN {"DRAFT"} ELSE {Classify(pr, reviews)} \cup ExtraStates(reviews)

\* sorted(list(statuses))
SortedStatuses(S) == SelectSeq(StatusOrder, LAMBDA st : st \in S)

\* [status for status in available_statuses if status != 'ALL']
WithoutALLKeepAs(available_statuses) == available_statuses
WithoutALL(available_statuses) == SelectSeq(available_statuses, LAMBDA st : st # "ALL")

Contains(list, x) == \E i \in 1..Len(list) : list[i] = x

\* values of --status and answers of the status prompt taken by the model
StatusArgs == {<<"DRAFT">>, <<"ALL">>, <<"ALL", "DRAFT">>}
PromptAnswers(available_statuses) ==
    {<<>>, <<"ALL">>}

(***************************************************************************)
(* Sorting and rendering (src/cli.py 150-176, 199-204).                    *)
(***************************************************************************)
SortFields == {"Days Open", "Comments"}

\* pr_data.sort(key=lambda x: x[sort_by], reverse=True): stable, descending
SortDesc(data, sort_by) ==
    LET n == Len(data)
        key(i) == data[i][sort_by].v
        rank(i) == 1 + Cardinality({j \in 1..n : key(j) > key(i)})
                     + Cardinality({j \in 1..n : j < i /\ key(j) = key(i)})
    IN  [p \in 1..n |-> data[CHOOSE i \in 1..n : rank(i) = p]]

\* str(value) of a table cell
Cell(x) == IF IsNum(x) THEN Str(<<ToString(x.v)>>) ELSE x

\* lines 167-173: the table printed for data
Table(data) ==
    [kind |-> "table", text |-> "",
     rows |-> [i \in 1..Len(data) |-> [key \in DOMAIN data[i] |-> Cell(data[i][key])]]]

\* line 152
Json(data) == [kind |-> "json", text |-> "", rows |-> JsonRows(data)]

Notice(text) == [kind |-> "notice", text |-> text, rows |-> <<>>]

\* lines 259-267: the checkbox prompt on the terminal and the answer given
Prompt(answer) ==
    [kind |-> "prompt", text |-> "Select PR statuses", rows |-> <<>>, answer |-> answer]

\* previous_results.get(user, {}).get('data', [])
PreviousData(f, login) ==
    LET previous_results == load_previous_results(f)
    IN  IF login \in DOMAIN previous_results THEN previous_results[login].data ELSE <<>>

\* lines 155-160: the rows display_results shows in table mode
Displayed(data, previous_data) ==
    IF previous_data # <<>> THEN calculate_diffs(data, previous_data) ELSE data

\* the parts of the state a specification does not use
DiffIdle == dcur = <<>> /\ dprev = <<>> /\ dres = <<>> /\ dpc = "off"
StoreIdle == sarg = [user |-> "", data |-> <<>>] /\ sbefore = EmptyDict /\ spc = "off"
AuxIdle ==
    /\ tz = 0
    /\ gtasks = <<>> /\ gorder = <<>> /\ gout = <<>> /\ gpc = "off"
    /\ procs = <<>>
NoPrevRun == [user |-> "", data |-> <<>>]
LocalsCleared ==
    /\ user = "" /\ statuses = <<>> /\ smode = "" /\ aprs = <<>> /\ ai = 0 /\ avail = {}
    /\ prs = <<>> /\ fetch = <<>> /\ pr_data = <<>> /\ console = <<>>
    /\ result = "" /\ failed = ""
RunIdle ==
    /\ repo = [n \in PRNums |-> [open |-> TRUE, comments |-> 0]]
    /\ events = 0
    /\ pc = "off" /\ LocalsCleared
    /\ startFile = AbsentFile /\ prevRun = NoPrevRun

(***************************************************************************)
(* Inputs of the diff engine: MetricsRecords as process_pr produces them,  *)
(* and stored rows as display_results writes them to the snapshot file     *)
(* (plain, annotated by an earlier diff, or marked CLOSED by one).         *)
(***************************************************************************)
SamplePR(number) ==
    [number |-> number, title |-> TitleOf(number), created_at |-> 0]

SampleDetails(number, c) ==
    [reviews |-> <<>>, comments |-> Opaque(c), commits |-> Opaque(MaxCount - c),
     files |-> FilesOf(number)]

PlainRow(number, c) ==
    process_pr(SamplePR(number), SampleDetails(number, c), c * HoursPerDay)

PlainRows == {PlainRow(n, c) : n \in 1..MaxLen, c \in 0..MaxCount}

StoredRows ==
    PlainRows
    \cup {DiffRow(PlainRow(n, MaxCount), <<PlainRow(n, 0)>>) : n \in 1..MaxLen}
    \cup {MarkClosed(PlainRow(n, 0)) : n \in 1..MaxLen}

\* the lists over Rows in which no PR number occurs twice
UniqueSeqs(Rows) ==
    UNION {{s \in [1..k -> Rows] :
              \A i, j \in 1..k : i # j => s[i]["PR #"] # s[j]["PR #"]} :
           k \in 0..MaxLen}

InitDiff ==
    /\ dcur \in UniqueSeqs(PlainRows)
    /\ dprev \in UniqueSeqs(StoredRows)
    /\ dres = <<>>
    /\ dpc = "input"
    /\ file = AbsentFile
    /\ now = 0
    /\ AuxIdle
    /\ StoreIdle
    /\ RunIdle

ApplyDiff ==
    /\ dpc = "input"
    /\ dres' = calculate_diffs(dcur, dprev)
    /\ dprev' = previous_data_after(dcur, dprev)
    /\ dpc' = "output"
    /\ UNCHANGED <<dcur, file, now, storeVars, repo, events, runVars, auxVars>>

NextDiff == ApplyDiff

SpecDiff == InitDiff /\ [][NextDiff]_vars

(***************************************************************************)
(* The snapshot store on its own: saves for either user of lists of rows   *)
(* the tool can hold, starting from an absent, a malformed or no file.     *)
(***************************************************************************)
SampleSnapshots ==
    {<<>>,
     <<PlainRow(1, 0)>>,
     <<PlainRow(MaxLen, MaxCount), PlainRow(1, 0)>>,
     calculate_diffs(<<PlainRow(1, MaxCount)>>, <<PlainRow(MaxLen, 0), PlainRow(1, 0)>>)}

InitStore ==
    /\ file \in {AbsentFile, MalformedFile}
    /\ now = 0
    /\ AuxIdle
    /\ sarg = [user |-> "", data |-> <<>>]
    /\ sbefore = EmptyDict
    /\ spc = "ready"
    /\ DiffIdle
    /\ RunIdle

StoreSave(login, data) ==
    /\ sbefore' = load_previous_results(file)
    /\ file' = save_results(file, login, data, now)
    /\ sarg' = [user |-> login, data |-> data]
    /\ spc' = "saved"
    /\ UNCHANGED <<diffVars, now, repo, events, runVars, auxVars>>

StoreTick ==
    /\ now < MaxNow * HoursPerDay
    /\ now' = now + HoursPerDay
    /\ UNCHANGED <<diffVars, file, storeVars, repo, events, runVars, auxVars>>

NextStore ==
    \/ \E login \in Users, data \in SampleSnapshots : StoreSave(login, data)
    \/ StoreTick

SpecStore == InitStore /\ [][NextStore]_vars

(***************************************************************************)
(* The tool run after run (main / analyze, src/cli.py 178-210, 318-331),   *)
(* with the repository changing between runs.  The command-line arguments  *)
(* of a run are chosen where analyze reads them.                           *)
(***************************************************************************)
Init ==
    /\ DiffIdle
    /\ StoreIdle
    /\ file \in {AbsentFile, MalformedFile}
    /\ now = 0
    /\ AuxIdle
    /\ repo = [n \in PRNums |-> [open |-> TRUE, comments |-> 0]]
    /\ events = 0
    /\ pc = "idle" /\ LocalsCleared
    /\ startFile = file /\ prevRun = NoPrevRun

frame == <<diffVars, storeVars, repo, events, now, auxVars>>

\* lines 208-210: the ClientError is printed and raised again
except_ClientErrorSwallowAs(cons) ==
    [console |-> Append(cons, [kind |-> "error", text |-> "API Error", rows |-> <<>>]),
     result |-> "ok"]
except_ClientError(cons) ==
    [console |-> Append(cons, [kind |-> "error", text |-> "API Error", rows |-> <<>>]),
     result |-> "error"]

\* a request of the run fails: raise_for_status (line 70) raises out of analyze
RequestFails(request) ==
    /\ failed' = request
    /\ console' = except_ClientError(console).console
    /\ result' = except_ClientError(console).result
    /\ pc' = "done"
    /\ statuses' = <<>> /\ smode' = "" /\ aprs' = <<>> /\ ai' = 0 /\ avail' = {}
    /\ prs' = <<>> /\ fetch' = <<>>
    /\ UNCHANGED <<user, pr_data>>

\* main: a new process
StartRun ==
    /\ pc = "idle"
    /\ pc' = "user"
    /\ startFile' = file
    /\ result' = "running"
    /\ UNCHANGED <<frame, file, selVars, prs, fetch, pr_data, console, failed,
                   prevRun>>

\* get_user_selection with --user (lines 213-214)
ArgUser(login) ==
    /\ pc = "user"
    /\ user' = login
    /\ pc' = "status"
    /\ UNCHANGED <<frame, file, statuses, smode, aprs, ai, avail, prs, fetch,
                   pr_data, console, result, failed, startFile, prevRun>>

\* get_user_selection without --user (lines 216-219, 181-182)
PromptUser ==
    /\ pc = "user"
    /\ \E answer \in get_all_users(ListPulls(repo)) \cup {""} :
          /\ user' = answer
          /\ IF answer = ""
             THEN pc' = "done" /\ result' = "cancelled"
             ELSE pc' = "status" /\ UNCHANGED result
    /\ UNCHANGED <<frame, file, statuses, smode, aprs, ai, avail, prs, fetch,
                   pr_data, console, failed, startFile, prevRun>>

UsersRequestFails ==
    /\ pc = "user"
    /\ RequestFails("pulls")
    /\ UNCHANGED <<frame, file, startFile, prevRun>>

\* get_status_selection (lines 246-253): status is the value of --status
\* split at the commas, <<>> if none
SelectStatus(status) ==
    /\ pc = "status"
    /\ statuses' = status
    /\ IF status # <<>> /\ ~Contains(status, "ALL")
       THEN pc' = "list" /\ UNCHANGED smode
       ELSE /\ smode' = IF status # <<>> THEN "arg" ELSE "prompt"
            /\ pc' = "avail"
    /\ UNCHANGED <<frame, file, user, aprs, ai, avail, prs, fetch, pr_data,
                   console, result, failed, startFile, prevRun>>

\* get_available_statuses, lines 222-223
AvailList ==
    /\ pc = "avail"
    /\ aprs' = get_user_pull_requests(ListPulls(repo), "")
    /\ avail' = {"ALL"}
    /\ ai' = 1
    /\ pc' = "avail_loop"
    /\ UNCHANGED <<frame, file, user, statuses, smode, prs, fetch, pr_data,
                   console, result, failed, startFile, prevRun>>

AvailListFails ==
    /\ pc = "avail"
    /\ RequestFails("pulls")
    /\ UNCHANGED <<frame, file, startFile, prevRun>>

\* get_available_statuses, one iteration of lines 225-241
AvailStep ==
    /\ pc = "avail_loop"
    /\ ai <= Len(aprs)
    /\ LET pr == aprs[ai]
           details == get_pr_details(repo, pr.number)
       IN  avail' = avail \cup StatusesOfPR(pr, details.reviews)
    /\ ai' = ai + 1
    /\ UNCHANGED <<frame, file, pc, user, statuses, smode, aprs, prs, fetch,
                   pr_data, console, result, failed, startFile, prevRun>>

AvailDetailFails(endpoint) ==
    /\ pc = "avail_loop"
    /\ ai <= Len(aprs)
    /\ ~aprs[ai].draft
    /\ RequestFails(endpoint)
    /\ UNCHANGED <<frame, file, startFile, prevRun>>

\* line 243, then get_status_selection lines 250 or 254-273, then lines 185-186
AvailReturn ==
    /\ pc = "avail_loop"
    /\ ai > Len(aprs)
    /\ LET available_statuses == SortedStatuses(avail)
       IN  \E selected \in IF smode = "arg" THEN {statuses}
                           ELSE PromptAnswers(available_statuses) :
              /\ statuses' = IF Contains(selected, "ALL")
                             THEN WithoutALL(available_statuses)
                             ELSE selected
              /\ console' = IF smode = "arg" THEN console
                            ELSE Append(console, Prompt(selected))
    /\ IF statuses' = <<>>
       THEN pc' = "done" /\ result' = "cancelled"
       ELSE pc' = "list" /\ UNCHANGED result
    /\ aprs' = <<>> /\ ai' = 0 /\ avail' = {} /\ smode' = ""
    /\ UNCHANGED <<frame, file, user, prs, fetch, pr_data, failed, startFile, prevRun>>

\* lines 190-197 once GET .../pulls has returned data: without PRs of the
\* user the run ends with a notice, otherwise one get_pr_details task per PR
\* is created in a single gather, and all of them start
ListReturns(data) ==
    /\ pc = "list"
    /\ prs' = get_user_pull_requests(data, user)
    /\ IF prs' = <<>>
       THEN /\ console' = Append(console, Notice("No PRs found for user"))
            /\ pc' = "done" /\ result' = "empty"
            /\ UNCHANGED fetch
       ELSE /\ fetch' = [i \in 1..Len(prs') |-> "running"]
            /\ pc' = "gather"
            /\ UNCHANGED <<console, result>>
    /\ UNCHANGED <<frame, file, selVars, pr_data, failed, startFile, prevRun>>

ListOK == ListReturns(ListPulls(repo))

ListFails ==
    /\ pc = "list"
    /\ RequestFails("pulls")
    /\ UNCHANGED <<frame, file, startFile, prevRun>>

\* the four requests of get_pr_details(prs[i]) have all returned
DetailDone(i) ==
    /\ pc = "gather"
    /\ fetch[i] = "running"
    /\ fetch' = [fetch EXCEPT ![i] = "done"]
    /\ UNCHANGED <<frame, file, pc, selVars, prs, pr_data, console, result,
                   failed, startFile, prevRun>>

\* one of the four requests of get_pr_details(prs[i]) fails
DetailFails(i, endpoint) ==
    /\ pc = "gather"
    /\ fetch[i] = "running"
    /\ RequestFails(endpoint)
    /\ UNCHANGED <<frame, file, startFile, prevRun>>

\* line 197 returns once every task is done
GatherReturned == \A i \in 1..Len(fetch) : fetch[i] = "done"

\* lines 199-204 and display_results (150-176): sort_by is --sort or the
\* answer of the sort prompt, output is --output
Display(sort_by, output) ==
    /\ pc = "gather"
    /\ GatherReturned
    /\ LET pr_details == [i \in 1..Len(prs) |-> get_pr_details(repo, prs[i].number)]
           data == SortDesc([i \in 1..Len(prs) |-> process_pr(prs[i], pr_details[i], now + tz)],
                            sort_by)
           shown == Displayed(data, PreviousData(file, user))
       IN  /\ pr_data' = data
           /\ IF output = "json"
              THEN /\ console' = Append(console, Json(data))
                   /\ UNCHANGED file
              ELSE /\ console' = Append(console, Table(shown))
                   /\ file' = save_results(file, user, shown, now + tz)
    /\ pc' = "done"
    /\ result' = "ok"
    /\ UNCHANGED <<frame, selVars, prs, fetch, failed, startFile, prevRun>>

\* the process exits
Finish ==
    /\ pc = "done"
    /\ pc' = "idle"
    /\ prevRun' = IF result \in {"ok", "empty"}
                  THEN [user |-> user, data |-> pr_data]
                  ELSE prevRun
    /\ user' = "" /\ statuses' = <<>> /\ smode' = "" /\ aprs' = <<>> /\ ai' = 0
    /\ avail' = {} /\ prs' = <<>> /\ fetch' = <<>> /\ pr_data' = <<>>
    /\ console' = <<>> /\ result' = "" /\ failed' = ""
    /\ startFile' = file
    /\ UNCHANGED <<frame, file>>

\* between runs: a PR is closed or reopened
EnvToggle(number) ==
    /\ pc = "idle"
    /\ events < MaxEvents
    /\ events' = events + 1
    /\ repo' = [repo EXCEPT ![number].open = ~@]
    /\ UNCHANGED <<diffVars, storeVars, now, file, runVars, auxVars>>

\* between runs: comments are added to or deleted from an open PR
EnvComment(number, c) ==
    /\ pc = "idle"
    /\ repo[number].open
    /\ c # repo[number].comments
    /\ events < MaxEvents
    /\ events' = events + 1
    /\ repo' = [repo EXCEPT ![number].comments = c]
    /\ UNCHANGED <<diffVars, storeVars, now, file, runVars, auxVars>>

\* between runs: a day passes
Tick ==
    /\ pc = "idle"
    /\ now < MaxNow * HoursPerDay
    /\ events < MaxEvents
    /\ events' = events + 1
    /\ now' = now + HoursPerDay
    /\ UNCHANGED <<diffVars, storeVars, repo, file, runVars, auxVars>>

Next ==
    \/ StartRun
    \/ \E login \in Users : ArgUser(login)
    \/ PromptUser
    \/ UsersRequestFails
    \/ \E status \in StatusArgs \cup {<<>>} : SelectStatus(status)
    \/ AvailList
    \/ AvailListFails
    \/ AvailStep
    \/ \E e \in 1..Len(Endpoints) : AvailDetailFails(Endpoints[e])
    \/ AvailReturn
    \/ ListOK
    \/ ListFails
    \/ \E i \in 1..Len(fetch) : DetailDone(i)
    \/ \E i \in 1..Len(fetch), e \in 1..Len(Endpoints) : DetailFails(i, Endpoints[e])
    \/ \E sort_by \in SortFields, output \in {"table", "json"} : Display(sort_by, output)
    \/ Finish
    \/ \E number \in PRNums : EnvToggle(number)
    \/ \E number \in PRNums, c \in 0..MaxCount : EnvComment(number, c)
    \/ Tick

Spec == Init /\ [][Next]_vars

(***************************************************************************)
(* The detail fetch of analyze on its own (lines 190-197): the PR list of  *)
(* the user has any length up to MaxFetch.                                 *)
(***************************************************************************)
\* a response of GET .../pulls with n open PRs, all of them of login
PullsOf(n, login) == [k \in 1..n |-> [PullOf(k) EXCEPT !.user = [login |-> login]]]

InitFetch ==
    /\ DiffIdle
    /\ StoreIdle
    /\ file = AbsentFile
    /\ now = 0
    /\ AuxIdle
    /\ repo = [n \in PRNums |-> [open |-> TRUE, comments |-> 0]]
    /\ events = 0
    /\ pc = "list"
    /\ user = "alice" /\ statuses = <<"DRAFT">> /\ smode = "" /\ aprs = <<>> /\ ai = 0
    /\ avail = {} /\ prs = <<>> /\ fetch = <<>> /\ pr_data = <<>> /\ console = <<>>
    /\ result = "running" /\ failed = ""
    /\ startFile = file /\ prevRun = NoPrevRun

FetchList(n) == ListReturns(PullsOf(n, user))

\* line 197 returns pr_details
FetchReturn ==
    /\ pc = "gather"
    /\ GatherReturned
    /\ pc' = "fetched"
    /\ UNCHANGED <<frame, file, selVars, prs, fetch, pr_data, console, result, failed,
                   startFile, prevRun>>

NextFetch ==
    \/ \E n \in 0..MaxFetch : FetchList(n)
    \/ \E i \in 1..Len(fetch) : DetailDone(i)
    \/ \E i \in 1..Len(fetch), e \in 1..Len(Endpoints) : DetailFails(i, Endpoints[e])
    \/ FetchReturn

SpecFetch == InitFetch /\ [][NextFetch]_vars

(***************************************************************************)
(* get_available_statuses on its own (lines 221-243): the PRs and the      *)
(* reviews the API returns for each of them are any of the samples.        *)
(***************************************************************************)
MaxReviews == 2    \* longest list of reviews of a sample PR

ReviewStates == {"Approved", "COMMENTED", "dismissed"}

\* the lists of reviews, of length up to MaxReviews, of the sample PRs
SampleReviews ==
    UNION {[1..k -> {[user |-> [login |-> "bob"], state |-> st] : st \in ReviewStates}]
           : k \in 0..MaxReviews}

\* a PR of the list together with the reviews the API returns for it
SamplePulls ==
    {[number |-> 1, draft |-> FALSE, reviews |-> reviews] : reviews \in SampleReviews}
    \cup {[number |-> 1, draft |-> TRUE, reviews |-> reviews] :
             reviews \in {<<>>, <<[user |-> [login |-> "bob"], state |-> "APPROVED"]>>}}

InitStatus ==
    /\ DiffIdle
    /\ StoreIdle
    /\ file = AbsentFile
    /\ now = 0
    /\ AuxIdle
    /\ repo = [n \in PRNums |-> [open |-> TRUE, comments |-> 0]]
    /\ events = 0
    /\ pc = "avail_loop"
    /\ aprs \in UNION {[1..k -> SamplePulls] : k \in 0..MaxLen}
    /\ ai = 1
    /\ avail = {"ALL"}
    /\ user = "" /\ statuses = <<>> /\ smode = ""
    /\ prs = <<>> /\ fetch = <<>> /\ pr_data = <<>> /\ console = <<>>
    /\ result = "running" /\ failed = ""
    /\ startFile = file /\ prevRun = NoPrevRun

\* one iteration of lines 225-241 on pr and the reviews returned for it
StatusStep ==
    /\ pc = "avail_loop"
    /\ ai <= Len(aprs)
    /\ avail' = avail \cup StatusesOfPR(aprs[ai], aprs[ai].reviews)
    /\ ai' = ai + 1
    /\ UNCHANGED <<frame, file, pc, user, statuses, smode, aprs, prs, fetch,
                   pr_data, console, result, failed, startFile, prevRun>>

\* line 243: return sorted(list(statuses))
StatusReturn ==
    /\ pc = "avail_loop"
    /\ ai > Len(aprs)
    /\ statuses' = SortedStatuses(avail)
    /\ pc' = "avail_done"
    /\ UNCHANGED <<frame, file, user, smode, aprs, ai, avail, prs, fetch,
                   pr_data, console, result, failed, startFile, prevRun>>

NextStatus == StatusStep \/ StatusReturn

SpecStatus == InitStatus /\ [][NextStatus]_vars

(***************************************************************************)
(* process_pr on its own (lines 129-148): a PR created at any hour, read   *)
(* at any later hour on a machine in any of the time zones.  created_at    *)
(* is a UTC instant (the trailing Z of line 136); datetime.now() of line   *)
(* 137 is the wall clock of the machine, the UTC instant plus tz.          *)
(***************************************************************************)
MaxOffset == 2     \* the time zones are UTC-MaxOffset .. UTC+MaxOffset

TimeZones == (0 - MaxOffset)..MaxOffset

InitSummary ==
    /\ DiffIdle
    /\ StoreIdle
    /\ file = AbsentFile
    /\ repo = [n \in PRNums |-> [open |-> TRUE, comments |-> 0]]
    /\ events = 0
    /\ \E created_at \in 0..(HoursPerDay - 1) :
          /\ prs = <<[PullOf(1) EXCEPT !.created_at = created_at]>>
          /\ now \in created_at..(created_at + (MaxNow + 1) * HoursPerDay)
    /\ tz \in TimeZones
    /\ gtasks = <<>> /\ gorder = <<>> /\ gout = <<>> /\ gpc = "off"
    /\ procs = <<>>
    /\ pc = "process"
    /\ user = "alice" /\ statuses = <<"DRAFT">> /\ smode = "" /\ aprs = <<>> /\ ai = 0
    /\ avail = {} /\ fetch = <<"done">> /\ pr_data = <<>> /\ console = <<>>
    /\ result = "running" /\ failed = ""
    /\ startFile = file /\ prevRun = NoPrevRun

\* line 199 for the one PR of prs
Summarize ==
    /\ pc = "process"
    /\ pr_data' = <<process_pr(prs[1], get_pr_details(repo, prs[1].number), now + tz)>>
    /\ pc' = "processed"
    /\ UNCHANGED <<diffVars, storeVars, repo, events, now, tz, gtasks, gorder, gout, gpc,
                   procs, file, selVars, prs, fetch, console, result, failed, startFile,
                   prevRun>>

NextSummary == Summarize

SpecSummary == InitSummary /\ [][NextSummary]_vars

(***************************************************************************)
(* asyncio.gather (lines 89 and 197).  Every awaitable is started at once; *)
(* they complete in any order; the list gather returns has the result of   *)
(* the k-th awaitable at position k; the first exception is raised to the  *)
(* caller at once.                                                         *)
(***************************************************************************)
Running == [state |-> "running", value |-> <<>>]

\* the awaitable at position k completes with value
TaskDoneAppendAs(k, value) ==
    /\ gpc = "wait"
    /\ gtasks[k].state = "running"
    /\ gtasks' = [gtasks EXCEPT ![k].state = "done",
                                ![Len(gorder) + 1].value = value]
    /\ gorder' = Append(gorder, k)
    /\ UNCHANGED <<gout, gpc>>
TaskDone(k, value) ==
    /\ gpc = "wait"
    /\ gtasks[k].state = "running"
    /\ gtasks' = [gtasks EXCEPT ![k] = [state |-> "done", value |-> value]]
    /\ gorder' = Append(gorder, k)
    /\ UNCHANGED <<gout, gpc>>

\* the awaitable at position k raises: gather raises to its caller
TaskFails(k) ==
    /\ gpc = "wait"
    /\ gtasks[k].state = "running"
    /\ gtasks' = [gtasks EXCEPT ![k].state = "failed"]
    /\ gpc' = "raised"
    /\ UNCHANGED <<gout, gorder>>

AllDone(tasks) == \A k \in 1..Len(tasks) : tasks[k].state = "done"

\* the list returned by await asyncio.gather(*tasks)
gatherCompletionOrderAs(tasks, order) == [k \in 1..Len(tasks) |-> tasks[order[k]].value]
gather(tasks, order) == [k \in 1..Len(tasks) |-> tasks[k].value]

\* dict(zip(keys, values))
dict_zip(keys, values) ==
    [key \in {keys[k] : k \in 1..Len(keys)} |->
        values[CHOOSE k \in 1..Len(keys) : keys[k] = key]]

\* the response of GET .../pulls/{pr_number}/{endpoint}
Response(r, pr_number, endpoint) ==
    CASE endpoint = "reviews" -> ReviewsOf(pr_number)
      [] endpoint = "comments" -> Opaque(r[pr_number].comments)
      [] endpoint = "commits" -> CommitsOf(pr_number)
      [] endpoint = "files" -> FilesOf(pr_number)

\* the repositories of the gather specifications
SampleRepos == [PRNums -> {[open |-> TRUE, comments |-> c] : c \in 0..MaxCount}]

gatherFrame == <<diffVars, storeVars, repo, events, now, tz, procs, file, pc, selVars,
                 prs, fetch, console, result, failed, startFile, prevRun>>

(***************************************************************************)
(* get_pr_details on its own (lines 85-90): the four requests of one PR.   *)
(***************************************************************************)
InitDetails ==
    /\ DiffIdle
    /\ StoreIdle
    /\ file = AbsentFile
    /\ now = 0
    /\ tz = 0
    /\ procs = <<>>
    /\ repo \in SampleRepos
    /\ events = 0
    /\ pc = "details"
    /\ prs \in {<<PullOf(n)>> : n \in PRNums}
    /\ gtasks = [e \in 1..Len(Endpoints) |-> Running]
    /\ gorder = <<>> /\ gout = <<>> /\ gpc = "wait"
    /\ user = "" /\ statuses = <<>> /\ smode = "" /\ aprs = <<>> /\ ai = 0
    /\ avail = {} /\ fetch = <<"running">> /\ pr_data = <<>> /\ console = <<>>
    /\ result = "running" /\ failed = ""
    /\ startFile = file /\ prevRun = NoPrevRun

\* one of the four requests returns its JSON
EndpointDone(e) ==
    /\ pc = "details"
    /\ TaskDone(e, Response(repo, prs[1].number, Endpoints[e]))
    /\ UNCHANGED <<gatherFrame, pr_data>>

\* raise_for_status raises in one of the four requests
EndpointFails(e) ==
    /\ pc = "details"
    /\ TaskFails(e)
    /\ UNCHANGED <<gatherFrame, pr_data>>

\* lines 89-90
DetailsReturn ==
    /\ pc = "details"
    /\ gpc = "wait"
    /\ AllDone(gtasks)
    /\ gout' = dict_zip(Endpoints, gather(gtasks, gorder))
    /\ gpc' = "returned"
    /\ UNCHANGED <<gatherFrame, pr_data, gtasks, gorder>>

NextDetails ==
    \/ \E e \in 1..Len(Endpoints) : EndpointDone(e)
    \/ \E e \in 1..Len(Endpoints) : EndpointFails(e)
    \/ DetailsReturn

SpecDetails == InitDetails /\ [][NextDetails]_vars

(***************************************************************************)
(* The gather of analyze on its own (lines 197-199): one get_pr_details    *)
(* per PR of prs, the PRs listed by the API in any order.                  *)
(***************************************************************************)
\* the lists of distinct open PRs the API can return, one PR at least
PullLists ==
    {[i \in 1..Len(numbers) |-> PullOf(numbers[i])] :
        numbers \in {q \in UNION {[1..k -> PRNums] : k \in 1..NumPRs} :
                        \A i, j \in 1..Len(q) : i # j => q[i] # q[j]}}

InitGather ==
    /\ DiffIdle
    /\ StoreIdle
    /\ file = AbsentFile
    /\ now = 0
    /\ tz = 0
    /\ procs = <<>>
    /\ repo = [n \in PRNums |-> [open |-> TRUE, comments |-> n % (MaxCount + 1)]]
    /\ events = 0
    /\ pc = "pr_details"
    /\ prs \in PullLists
    /\ gtasks = [i \in 1..Len(prs) |-> Running]
    /\ gorder = <<>> /\ gout = <<>> /\ gpc = "wait"
    /\ user = "" /\ statuses = <<"DRAFT">> /\ smode = "" /\ aprs = <<>> /\ ai = 0
    /\ avail = {} /\ fetch = [i \in 1..Len(prs) |-> "running"]
    /\ pr_data = <<>> /\ console = <<>>
    /\ result = "running" /\ failed = ""
    /\ startFile = file /\ prevRun = NoPrevRun

\* get_pr_details of the i-th PR returns its detail set
PullDetailsDone(i) ==
    /\ pc = "pr_details"
    /\ TaskDone(i, get_pr_details(repo, prs[i].number))
    /\ UNCHANGED <<gatherFrame, pr_data>>

\* get_pr_details of the i-th PR raises
PullDetailsFails(i) ==
    /\ pc = "pr_details"
    /\ TaskFails(i)
    /\ UNCHANGED <<gatherFrame, pr_data>>

\* lines 197-199: pr_details is what gather returns, and
\* pr_data = [process_pr(pr, details) for pr, details in zip(prs, pr_details)]
GatherReturns ==
    /\ pc = "pr_details"
    /\ gpc = "wait"
    /\ AllDone(gtasks)
    /\ gout' = gather(gtasks, gorder)
    /\ pr_data' = [i \in 1..Len(prs) |-> process_pr(prs[i], gout'[i], now + tz)]
    /\ gpc' = "returned"
    /\ UNCHANGED <<gatherFrame, gtasks, gorder>>

NextGather ==
    \/ \E i \in 1..Len(prs) : PullDetailsDone(i)
    \/ \E i \in 1..Len(prs) : PullDetailsFails(i)
    \/ GatherReturns

SpecGather == InitGather /\ [][NextGather]_vars

(***************************************************************************)
(* Two runs of the tool, one per user, that reach save_results (lines      *)
(* 38-45) at overlapping times on the same snapshot file.  Each process    *)
(* loads the file into its own history (line 39), opens the file for       *)
(* writing, which empties it (line 44), and dumps its history (line 45).   *)
(***************************************************************************)
\* the file before the two saves: absent, not JSON, or holding a snapshot
\* of both users written at hour 0
RaceFiles ==
    {AbsentFile, MalformedFile}
    \cup {save_results(save_results(AbsentFile, "alice", a, 0), "bob", b, 0) :
             a \in SampleSnapshots, b \in SampleSnapshots}

InitRace ==
    /\ DiffIdle
    /\ StoreIdle
    /\ RunIdle
    /\ file \in RaceFiles
    /\ now = HoursPerDay
    /\ tz = 0
    /\ gtasks = <<>> /\ gorder = <<>> /\ gout = <<>> /\ gpc = "off"
    /\ procs \in [Users -> {[pc |-> "load", history |-> EmptyDict, data |-> data] :
                                data \in SampleSnapshots}]

raceFrame == <<diffVars, storeVars, repo, events, now, tz, gtasks, gorder, gout, gpc,
               runVars>>

\* lines 39-43 in the run of login
SaveLoad(login) ==
    /\ procs[login].pc = "load"
    /\ procs' = [procs EXCEPT
                    ![login].pc = "open",
                    ![login].history =
                        SetEntry(load_previous_results(file), login,
                                 [timestamp |-> IsoFormat(now + tz),
                                  data |-> procs[login].data])]
    /\ UNCHANGED <<raceFrame, file>>

\* line 44 in the run of login: open(..., 'w') leaves an empty file
SaveOpen(login) ==
    /\ procs[login].pc = "open"
    /\ procs' = [procs EXCEPT ![login].pc = "dump"]
    /\ file' = MalformedFile
    /\ UNCHANGED raceFrame

\* line 45 in the run of login, and the file is closed.  When the other run
\* has written since this run emptied the file, this document is written
\* over the other one from the start: what is left is this document, or
\* this document followed by the tail of a longer one, which is not JSON.
SaveDump(login) ==
    /\ procs[login].pc = "dump"
    /\ procs' = [procs EXCEPT ![login].pc = "saved"]
    /\ \/ file' = [kind |-> "json", text |-> JsonDump(procs[login].history)]
       \/ file.kind = "json" /\ file' = MalformedFile
    /\ UNCHANGED raceFrame

NextRace ==
    \/ \E login \in Users : SaveLoad(login)
    \/ \E login \in Users : SaveOpen(login)
    \/ \E login \in Users : SaveDump(login)

SpecRace == InitRace /\ [][NextRace]_vars

(***************************************************************************)
(* Properties of the diff engine, checked under SpecDiff.                  *)
(***************************************************************************)
\* positions of dprev whose PR number does not occur in dcur
GoneIdx ==
    {j \in 1..Len(dprev) :
        \A i \in 1..Len(dcur) : dcur[i]["PR #"] # dprev[j]["PR #"]}

\* the previous record of the PR of dcur[i], when there is one
PrevIdx(i) == {j \in 1..Len(dprev) : dprev[j]["PR #"] = dcur[i]["PR #"]}

\* C3: diff(current, previous) returns one row per current record in the
\* order of current, then exactly the previous records whose PR number does
\* not occur in current, in the order of previous, each marked CLOSED, and
\* no other rows.
C3_DiffRowsAndClosed ==
    dpc = "output" =>
        /\ Len(dres) = Len(dcur) + Cardinality(GoneIdx)
        /\ \A i \in 1..Len(dcur) :
              /\ dres[i]["PR #"] = dcur[i]["PR #"]
              /\ "Status" \notin DOMAIN dres[i]
        /\ \A j \in GoneIdx :
              LET pos == Len(dcur) + Cardinality({g \in GoneIdx : g <= j})
              IN  /\ DOMAIN dres[pos] = DOMAIN dprev[j] \cup {"Status"}
                  /\ dres[pos]["Status"] = CLOSED
                  /\ \A key \in DOMAIN dprev[j] \ {"Status"} :
                        dres[pos][key] = dprev[j][key]

C3_Witness ==
    /\ dpc = "output"
    /\ Len(dcur) >= 1
    /\ Cardinality(GoneIdx) >= 1
    /\ Len(dprev) > Cardinality(GoneIdx)

\* C4: a numeric field of a current record whose previous record holds a
\* different number is shown as the current value with the signed difference
\* current minus previous; an equal one is shown unchanged; a current record
\* without previous record is emitted unchanged; PR #, Title and File Types
\* are never annotated.
C4_NumericDelta ==
    dpc = "output" =>
        \A i \in 1..Len(dcur) :
            /\ PrevIdx(i) = {} => dres[i] = dcur[i]
            /\ \A key \in SkipFields : dres[i][key] = dcur[i][key]
            /\ \A j \in PrevIdx(i) : \A key \in NumericFields :
                  (dcur[i][key].t = "int" /\ dprev[j][key].t = "int") =>
                      IF dcur[i][key].v # dprev[j][key].v
                      THEN /\ dres[i][key].t = "str"
                           /\ dres[i][key].v = dcur[i][key].v
                           /\ dres[i][key].d = dcur[i][key].v - dprev[j][key].v
                      ELSE dres[i][key] = dcur[i][key]

C4_Witness ==
    /\ dpc = "output"
    /\ \E i \in 1..Len(dcur) : \E j \in PrevIdx(i) :
          /\ dprev[j]["Comments"].t = "int"
          /\ dcur[i]["Comments"].v = dprev[j]["Comments"].v + 1
          /\ dres[i]["Comments"].d = 1
          /\ dprev[j]["Commits"].t = "int"
          /\ dres[i]["Commits"].d = -1
          /\ dres[i]["Files Changed"] = dcur[i]["Files Changed"]
    /\ \E i \in 1..Len(dcur) : PrevIdx(i) = {}

\* C10: diff(X, X) returns X: the same rows in the same order, no field
\* annotated and no row marked CLOSED.
C10_DiffSelf ==
    (dpc = "output" /\ dprev = dcur) => dres = dcur

C10_Witness ==
    /\ dpc = "output"
    /\ dprev = dcur
    /\ Len(dcur) = MaxLen
    /\ dres = dcur

\* C16: diff leaves both inputs as they were: every record of current and
\* of previous has the same fields and values after the call as before it;
\* no record of previous gains a Status field.
C16_InputsUnchanged ==
    [][(dpc = "input" /\ dpc' = "output") => (dcur' = dcur /\ dprev' = dprev)]_vars

(***************************************************************************)
(* Properties of the snapshot store, checked under SpecStore.              *)
(***************************************************************************)
\* C9: after save(A, records), load returns under A the records saved, and
\* the snapshot of every other user B (timestamp and data) is as before.
C9_StoreRoundTrip ==
    spc = "saved" =>
        LET loaded == load_previous_results(file)
        IN  /\ sarg.user \in DOMAIN loaded
            /\ loaded[sarg.user].data = sarg.data
            /\ \A B \in Users \ {sarg.user} :
                  /\ B \in DOMAIN loaded <=> B \in DOMAIN sbefore
                  /\ B \in DOMAIN sbefore => loaded[B] = sbefore[B]

C9_Witness ==
    /\ spc = "saved"
    /\ sarg.user = "alice"
    /\ Len(sarg.data) = 2
    /\ "bob" \in DOMAIN sbefore
    /\ Len(sbefore["bob"].data) = 1
    /\ "alice" \in DOMAIN sbefore
    /\ sbefore["alice"].data # sarg.data
    /\ load_previous_results(file)["bob"] = sbefore["bob"]

(***************************************************************************)
(* Properties of the detail fetch, checked under SpecFetch.                *)
(***************************************************************************)
\* the batch of the i-th PR of the list when the list is cut into
\* consecutive batches of 3
BatchOf(i) == (i - 1) \div 3

\* C1: the detail fetches run in consecutive batches of 3 in strict
\* sequence: no detail fetch of a later batch is started before every detail
\* fetch of the batches before it has completed.
C1_BatchesInSequence ==
    \A i, j \in 1..Len(fetch) :
        (BatchOf(i) < BatchOf(j) /\ fetch[j] \in {"running", "done"}) => fetch[i] = "done"

\* the PRs whose detail fetch has been started and has not completed
InFlight == {i \in 1..Len(fetch) : fetch[i] = "running"}

\* C11: at every moment of the detail-fetch phase at most 3 PRs have a
\* detail fetch that has been started and has not yet completed.
C11_InFlightAtMostBatch == Cardinality(InFlight) <= 3

(***************************************************************************)
(* Properties of the run, checked under Spec.                              *)
(***************************************************************************)
Rendered == {i \in 1..Len(console) : console[i].kind \in {"table", "json"}}

\* C2: when a request of the run fails, the run ends in an error raised to
\* the top level: nothing more is requested, no table and no JSON rows are
\* printed and the snapshot file is as it was when the run started.
C2_FailureAborts ==
    failed # "" =>
        /\ pc = "done"
        /\ result = "error"
        /\ Rendered = {}
        /\ file = startFile

C2_Witness ==
    /\ failed = "files"
    /\ result = "error"
    /\ startFile.kind = "json"
    /\ DOMAIN startFile.text = Users
    /\ events = MaxEvents

\* C5, for the runs that print the table: after the run the snapshot stored
\* under the user is exactly the run's MetricsRecords, the plain values of
\* process_pr for the PRs that are open.
C5_SnapshotIsRunRecords ==
    (pc = "done" /\ result = "ok" /\ console[Len(console)].kind = "table") =>
        PreviousData(file, user) = pr_data

\* the item printed by the run shows field key of PR number as value cur
\* together with the signed delta
ShowsDelta(item, number, key, cur, delta) ==
    \E r \in 1..Len(item.rows) :
        IF item.kind = "table"
        THEN /\ item.rows[r]["PR #"] = Cell(Num(number))
             /\ item.rows[r][key].v = cur
             /\ item.rows[r][key].d = delta
        ELSE /\ item.rows[r]["PR #"].n = number
             /\ item.rows[r][key].j = "string"
             /\ item.rows[r][key].chars[1] = cur
             /\ item.rows[r][key].chars[2] = delta

\* C6: in a run that follows a run for the same user, every numeric field
\* of a PR open in both runs whose value differs between the two runs is
\* displayed with the delta, this run's value minus the preceding run's.
C6_DeltaAgainstPrecedingRun ==
    (pc = "done" /\ result = "ok" /\ prevRun.user = user) =>
        \A i \in 1..Len(pr_data), j \in 1..Len(prevRun.data), key \in NumericFields :
            (/\ pr_data[i]["PR #"] = prevRun.data[j]["PR #"]
             /\ pr_data[i][key] # prevRun.data[j][key]) =>
                ShowsDelta(console[Len(console)], pr_data[i]["PR #"].v, key,
                           pr_data[i][key].v, pr_data[i][key].v - prevRun.data[j][key].v)

\* the PR numbers of the open PRs of login
OpenOf(login) == {n \in PRNums : repo[n].open /\ AuthorOf(n) = login}

\* the item printed by the run has a row of PR number marked CLOSED
ShowsClosed(item, number) ==
    \E r \in 1..Len(item.rows) :
        /\ "Status" \in DOMAIN item.rows[r]
        /\ IF item.kind = "table"
           THEN /\ item.rows[r]["PR #"] = Cell(Num(number))
                /\ item.rows[r]["Status"] = CLOSED
           ELSE /\ item.rows[r]["PR #"].n = number
                /\ item.rows[r]["Status"] = JsonValue(CLOSED)

\* C7: in a run for a user that ends without remote error, every PR of the
\* user's previous snapshot that is not among the user's open PRs appears in
\* the output marked CLOSED, whatever the open PRs and the output format.
C7_ClosedShown ==
    (pc = "done" /\ result \in {"ok", "empty"}) =>
        LET previous_data == PreviousData(startFile, user)
        IN  \A j \in 1..Len(previous_data) :
                previous_data[j]["PR #"].v \notin OpenOf(user) =>
                    \E c \in 1..Len(console) :
                        ShowsClosed(console[c], previous_data[j]["PR #"].v)

\* C8: a PR whose status is not among the selected statuses is not rendered,
\* and when no PR of the user has a selected status the run ends with the
\* notice of an empty result instead of rows.
C8_FilteredByStatus ==
    (pc = "done" /\ result \in {"ok", "empty"}) =>
        LET matching == {n \in OpenOf(user) :
                            Contains(statuses, Classify(PullOf(n), ReviewsOf(n)))}
        IN  /\ \A i \in 1..Len(pr_data) : pr_data[i]["PR #"].v \in matching
            /\ matching = {} => (Rendered = {} /\ Len(console) = 1)

(***************************************************************************)
(* Properties of the status classification, checked under SpecStatus.      *)
(***************************************************************************)
\* the review state equals APPROVED, whatever its case
IsApproved(st) == st \in {"APPROVED", "approved", "Approved"}

\* the status a PR must get
ExpectedStatus(pr) ==
    IF pr.draft THEN "DRAFT"
    ELSE IF \E i \in 1..Len(pr.reviews) : IsApproved(pr.reviews[i].state)
         THEN "READY" ELSE "PENDING REVIEW"

\* the upper-cased review states of a PR outside APPROVED and COMMENTED
ExpectedExtra(pr) ==
    IF pr.draft THEN {}
    ELSE {"DISMISSED" : i \in {j \in 1..Len(pr.reviews) :
                                   pr.reviews[j].state \in {"dismissed", "DISMISSED"}}}
         \cup {"CHANGES_REQUESTED" : i \in {j \in 1..Len(pr.reviews) :
                   pr.reviews[j].state \in {"changes_requested", "CHANGES_REQUESTED"}}}

\* the code points of the first two characters of a status label
CodePoints(label) ==
    CASE label = "ALL" -> <<65, 76>>
      [] label = "CHANGES_REQUESTED" -> <<67, 72>>
      [] label = "DISMISSED" -> <<68, 73>>
      [] label = "DRAFT" -> <<68, 82>>
      [] label = "PENDING REVIEW" -> <<80, 69>>
      [] label = "READY" -> <<82, 69>>

LexLess(a, b) ==
    \/ CodePoints(a)[1] < CodePoints(b)[1]
    \/ CodePoints(a)[1] = CodePoints(b)[1] /\ CodePoints(a)[2] < CodePoints(b)[2]

\* C12: every PR gets exactly one of DRAFT, READY, PENDING REVIEW: DRAFT when
\* it is a draft, else READY when a review state is APPROVED in any case,
\* else PENDING REVIEW; the aggregate is ALL, the statuses of the PRs seen so
\* far and the upper-cased other review states of the non-draft ones, and it
\* is returned sorted.
C12_Classification ==
    (pc \in {"avail_loop", "avail_done"} /\ smode = "" /\ user = "") =>
        /\ \A i \in 1..Len(aprs) :
              Classify(aprs[i], aprs[i].reviews) = ExpectedStatus(aprs[i])
        /\ avail = {"ALL"} \cup {ExpectedStatus(aprs[i]) : i \in 1..(ai - 1)}
                          \cup UNION {ExpectedExtra(aprs[i]) : i \in 1..(ai - 1)}
        /\ pc = "avail_done" =>
              /\ {statuses[k] : k \in 1..Len(statuses)} = avail
              /\ \A k \in 1..(Len(statuses) - 1) : LexLess(statuses[k], statuses[k + 1])

C12_Witness ==
    /\ pc = "avail_done"
    /\ Len(aprs) = MaxLen
    /\ statuses = <<"ALL", "DISMISSED", "DRAFT", "READY">>

(***************************************************************************)
(* Properties of the status selection, checked under Spec.                 *)
(***************************************************************************)
\* the statuses observed across the open PRs of the repository
ObservedStatuses ==
    UNION {StatusesOfPR(PullOf(n), ReviewsOf(n)) : n \in {k \in PRNums : repo[k].open}}

Labels(list) == {list[k] : k \in 1..Len(list)}

\* get_status_selection returns: from --status without ALL, or once the
\* available statuses are known
SelectionReturns ==
    /\ failed' = ""
    /\ \/ pc = "status" /\ pc' = "list"
       \/ pc = "avail_loop" /\ pc' \in {"list", "done"}

\* the labels selected, by --status or in the answer to the prompt
Selected ==
    IF pc = "status" THEN statuses'
    ELSE IF smode = "arg" THEN statuses
    ELSE console'[Len(console')].answer

C14_FreshStart ==
    (/\ startFile.kind # "json"
     /\ pc = "done" /\ result = "ok"
     /\ console[Len(console)].kind = "table") =>
        /\ load_previous_results(startFile) = EmptyDict
        /\ console[Len(console)] = Table(pr_data)
        /\ file.kind = "json"
        /\ DOMAIN load_previous_results(file) = {user}
        /\ PreviousData(file, user) = pr_data

C14_Witness ==
    /\ startFile = MalformedFile
    /\ pc = "done" /\ result = "ok"
    /\ console[Len(console)].kind = "table"
    /\ Len(pr_data) = 2
    /\ events = MaxEvents

(***************************************************************************)
(* Properties of the summarizer, checked under SpecSummary.                *)
(***************************************************************************)
\* C15: Days Open is the number of whole days between the creation instant
\* and the current instant, both in UTC, and so it is not negative,
\* whatever the time zone of the machine.
C15_DaysOpenUTC ==
    pc = "processed" =>
        /\ pr_data[1]["Days Open"] = Num((now - prs[1].created_at) \div HoursPerDay)
        /\ pr_data[1]["Days Open"].v >= 0

(***************************************************************************)
(* Properties of get_pr_details, checked under SpecDetails.                *)
(***************************************************************************)
\* C17: whatever the order in which the four requests of a PR complete, the
\* detail set returned binds each kind to the response of the request for
\* that kind; when one of the four fails, the call fails and returns no
\* detail set, not even a partial one.
C17_MergedByKind ==
    /\ gpc = "returned" =>
          /\ DOMAIN gout = {"reviews", "comments", "commits", "files"}
          /\ \A kind \in DOMAIN gout : gout[kind] = Response(repo, prs[1].number, kind)
          /\ gout = get_pr_details(repo, prs[1].number)
    /\ (\E e \in 1..Len(gtasks) : gtasks[e].state = "failed") =>
          (gpc = "raised" /\ gout = <<>>)

C17_Witness ==
    /\ pc = "details"
    /\ gpc = "returned"
    /\ gorder = <<4, 3, 1, 2>>
    /\ Len(gout.comments) # Len(gout.commits)

(***************************************************************************)
(* Properties of the gather of analyze, checked under SpecGather.          *)
(***************************************************************************)
\* C18: whatever the order in which the detail fetches complete, the i-th
\* detail set is the one fetched for the i-th PR of the list, so that every
\* MetricsRecord joins the number and title of a PR with the files, commits
\* and comments of that PR.
C18_AlignedWithInput ==
    (pc = "pr_details" /\ gpc = "returned") =>
        /\ Len(gout) = Len(prs)
        /\ Len(pr_data) = Len(prs)
        /\ \A i \in 1..Len(prs) :
              LET number == prs[i].number
              IN  /\ gout[i].commits = Response(repo, number, "commits")
                  /\ gout[i].comments = Response(repo, number, "comments")
                  /\ gout[i].files = Response(repo, number, "files")
                  /\ gout[i].reviews = Response(repo, number, "reviews")
                  /\ pr_data[i]["PR #"] = Num(number)
                  /\ pr_data[i]["Title"] = Str(TitleOf(number))
                  /\ pr_data[i]["Commits"] = Num(Len(CommitsOf(number)))
                  /\ pr_data[i]["Files Changed"] = Num(Len(FilesOf(number)))
                  /\ pr_data[i]["Comments"] = Num(repo[number].comments)

C18_Witness ==
    /\ pc = "pr_details"
    /\ gpc = "returned"
    /\ Len(prs) = NumPRs
    /\ prs[1].number = NumPRs
    /\ gorder[1] = Len(prs)
    /\ gorder[Len(prs)] = 1

(***************************************************************************)
(* Uniqueness of the PR number across runs, checked under Spec.            *)
(***************************************************************************)
\* no two rows of the list have the same PR number
UniqueNumbers(rows) ==
    \A i, j \in 1..Len(rows) : i # j => rows[i]["PR #"] # rows[j]["PR #"]

C20_BothSnapshotsKept ==
    (\A login \in Users : procs[login].pc = "saved") =>
        \A login \in Users :
            /\ login \in DOMAIN load_previous_results(file)
            /\ load_previous_results(file)[login].timestamp = IsoFormat(now + tz)
            /\ PreviousData(file, login) = procs[login].data

====
